---- MODULE Spec2Model ----
(***************************************************************************)
(* Hospital Management System: the appointment scheduling core.           *)
(*                                                                         *)
(* The state is the SQLite database (users, doctors, patients,             *)
(* doctor_availability, appointments, treatments), the one open write      *)
(* transaction SQLite allows, the wall clock, and the position of each     *)
(* request being served.  Every request handler is a sequence of steps,    *)
(* one per SQL statement, so that requests served concurrently interleave  *)
(* between statements as they do in the threaded Flask server.             *)
(*                                                                         *)
(* Text values are modelled as sequences: a date 'YYYY-MM-DD' is           *)
(* <<y, m, d>>, a time 'HH:MM' is <<h, m>>, a numeric form field is <<n>>, *)
(* and the empty sequence is an absent or empty form field.                *)
(***************************************************************************)
EXTENDS Integers, Sequences, FiniteSets, TLC

VARIABLES db, tx, txOwner, clock, req, resp

vars == <<db, tx, txOwner, clock, req, resp>>

-----------------------------------------------------------------------------
(* Bounds of the model *)

NumProcs == 2
MaxAppointments == 2
MaxPatients == 2
MaxAddedDoctors == 1

Procs == 1..NumProcs

-----------------------------------------------------------------------------
(* Text, dates and times *)

\* The days the clock can show, as strftime('%Y-%m-%d') prints them.
Calendar == << <<2024, 1, 30>>, <<2024, 1, 31>>, <<2024, 2, 1>> >>

Strftime(day) == Calendar[day]

\* Python's and SQLite's '<' on text: lexicographic order.
StrLess(a, b) ==
    \E k \in 1..Len(b) :
        /\ \A j \in 1..(k - 1) : j <= Len(a) /\ a[j] = b[j]
        /\ (k > Len(a) \/ a[k] < b[k])

\* Python truthiness of a form field: None and '' are false.
Truthy(field) == field # <<>>

\* all([...]) over form fields.
AllFields(fields) == \A i \in 1..Len(fields) : Truthy(fields[i])

\* SQLite integer affinity applied to a numeric text parameter.
SqlInt(field) == field[1]

\* SQLite time(): 'HH:MM' normalised, NULL (the empty sequence) when the text
\* is no time of day.
SqlTime(t) ==
    IF Len(t) = 2 /\ t[1] \in 0..23 /\ t[2] \in 0..59
    THEN << t[1] * 60 + t[2] >>
    ELSE <<>>

\* Mutant: the upper bound is exclusive.
SqlBetween_Exclusive(x, lo, hi) ==
    /\ x # <<>> /\ lo # <<>> /\ hi # <<>>
    /\ lo[1] <= x[1]
    /\ x[1] < hi[1]

\* x BETWEEN lo AND hi; NULL operands make the result NULL, which a WHERE
\* clause treats as false.
SqlBetween(x, lo, hi) ==
    /\ x # <<>> /\ lo # <<>> /\ hi # <<>>
    /\ lo[1] <= x[1]
    /\ x[1] <= hi[1]

Statuses == {"Booked", "Completed", "Cancelled", "Rescheduled"}

\* CHECK(status IN (...)): a CHECK constraint passes when it is true or NULL.
StatusCheck(status) == status \in Statuses \/ status = "NULL"

\* Mutant: the filter names 'Cancelled' only.
NotTerminal_OnlyCancelled(status) == status # "NULL" /\ status # "Cancelled"

\* status NOT IN ('Cancelled', 'Rescheduled'): NULL for a NULL status.
NotTerminal(status) == status # "NULL" /\ status \notin {"Cancelled", "Rescheduled"}

-----------------------------------------------------------------------------
(* The database.  Rows are never deleted and every table has an            *)
(* AUTOINCREMENT key, so a row's id is its position in the table.          *)

SeedDays == 7

SeedSlots == << << <<9, 0>>, <<12, 0>> >>, << <<14, 0>>, <<17, 0>> >> >>

SeedDoctorEmails == <<"john", "sarah", "michael", "emily">>

UserRow(email, role, status) == [email |-> email, role |-> role, status |-> status]

PartyRow(user_id, status) == [user_id |-> user_id, status |-> status]

WindowRow(doctor_id, date, start, end, avail) ==
    [doctor_id |-> doctor_id, date |-> date, start_time |-> start,
     end_time |-> end, is_available |-> avail]

AppointmentRow(patient_id, doctor_id, date, time, status) ==
    [patient_id |-> patient_id, doctor_id |-> doctor_id, appointment_date |-> date,
     appointment_time |-> time, status |-> status]

TreatmentRow(appointment_id, data) ==
    [appointment_id |-> appointment_id, data |-> data]

\* The days range(7) reaches from `day`, cut to the calendar of the model.
NextDays(day) == { d \in day..(day + SeedDays - 1) : d <= Len(Calendar) }

RECURSIVE DefaultWindows(_, _, _)
\* The default windows of one doctor: for each of the next days, each slot.
DefaultWindows(doctor_id, day, last) ==
    IF day > last THEN <<>>
    ELSE << WindowRow(doctor_id, Strftime(day), SeedSlots[1][1], SeedSlots[1][2], 1),
            WindowRow(doctor_id, Strftime(day), SeedSlots[2][1], SeedSlots[2][2], 1) >>
         \o DefaultWindows(doctor_id, day + 1, last)

LastSeedDay(day) == CHOOSE d \in NextDays(day) : \A e \in NextDays(day) : e <= d

RECURSIVE SeedWindows(_, _)
SeedWindows(n, day) ==
    IF n = 0 THEN <<>>
    ELSE SeedWindows(n - 1, day) \o DefaultWindows(n, day, LastSeedDay(day))

\* seed_data: the administrator, four doctors and their default windows.
SeedData(day) ==
    [users |-> << UserRow("admin", "admin", "active") >>
               \o [i \in 1..Len(SeedDoctorEmails) |->
                      UserRow(SeedDoctorEmails[i], "doctor", "active")],
     doctors |-> [i \in 1..Len(SeedDoctorEmails) |-> PartyRow(i + 1, "active")],
     patients |-> <<>>,
     availability |-> SeedWindows(Len(SeedDoctorEmails), day),
     appointments |-> <<>>,
     treatments |-> <<>>]

\* What a connection reads: its own uncommitted writes, or the committed state.
View(p) == IF txOwner = p THEN tx ELSE db

Ids(table) == 1..Len(table)

\* SELECT patient_id FROM patients WHERE user_id = ?  (0: no row)
PatientOf(d, uid) ==
    IF \E i \in Ids(d.patients) : d.patients[i].user_id = uid
    THEN CHOOSE i \in Ids(d.patients) : d.patients[i].user_id = uid
    ELSE 0

\* SELECT doctor_id FROM doctors WHERE user_id = ?  (0: no row)
DoctorOf(d, uid) ==
    IF \E i \in Ids(d.doctors) : d.doctors[i].user_id = uid
    THEN CHOOSE i \in Ids(d.doctors) : d.doctors[i].user_id = uid
    ELSE 0

\* load_user and the role decorators: the session names a user row.
RoleOf(d, uid) == IF uid \in Ids(d.users) THEN d.users[uid].role ELSE "anonymous"

-----------------------------------------------------------------------------
(* Requests *)

NoData == [diagnosis |-> "", prescription |-> "", notes |-> "", follow_up_date |-> <<>>]

Idle ==
    [op |-> "none", pc |-> "idle", uid |-> 0, patient_id |-> 0, doctor_id |-> <<>>,
     date |-> <<>>, time |-> <<>>, aid |-> 0,
     status |-> "NULL", data |-> NoData, existing |-> FALSE, email |-> "",
     form |-> <<>>, i |-> 0, wid |-> 0, user_id |-> 0]

Free(p) == req[p].pc = "idle"

\* The response of a handler: the message it flashes, with the request it
\* answers.  `resp` is the response of the request that ended last, until the
\* next request comes in.
Response(r, out) == [out |-> out, of |-> [r EXCEPT !.pc = "idle"]]

NoResponse == Response(Idle, "none")

\* The request goes on to its first statement.
Begin(p, r) == req' = [req EXCEPT ![p] = r] /\ resp' = NoResponse

Goto(p, pc) == req' = [req EXCEPT ![p].pc = pc] /\ UNCHANGED resp

Reply(p, r, out) == req' = [req EXCEPT ![p] = Idle] /\ resp' = Response(r, out)

Finish(p, out) == Reply(p, req[p], out)

\* A write statement needs SQLite's write lock: free, or held by this connection.
CanWrite(p) == txOwner \in {0, p}

\* A write statement: the connection's transaction now holds `d`.
Write(p, d) == tx' = d /\ txOwner' = p /\ UNCHANGED db

\* db.commit()
Commit(p) ==
    IF txOwner = p
    THEN db' = tx /\ tx' = tx /\ txOwner' = 0
    ELSE UNCHANGED <<db, tx, txOwner>>

\* Mutant: the uncommitted writes stay.
RolledBack_Keeps(committed, uncommitted) == uncommitted

\* db.rollback(): the committed state stands.
RolledBack(committed, uncommitted) == committed

Rollback(p) ==
    /\ db' = RolledBack(db, View(p))
    /\ tx' = IF txOwner = p THEN RolledBack(db, View(p)) ELSE tx
    /\ txOwner' = IF txOwner = p THEN 0 ELSE txOwner

\* An exception `e` inside the handler's try block: rollback, flash str(e).
Raise(p, e) == Rollback(p) /\ Finish(p, e)

\* Mutant: the decorators let every request through.
Denied_Never(d, uid, role) == FALSE

\* The request of user `uid` is refused by @login_required or the role decorator.
Denied(d, uid, role) == RoleOf(d, uid) # role

\* The storage of the model is bounded: an INSERT into a table that is full does
\* not succeed (the statement can only fail with a StorageError).
HasRoom(table, max) == Len(table) < max

-----------------------------------------------------------------------------
(* auth.register *)

RegisterRequest(p, emails) ==
    /\ Free(p)
    /\ \E email \in emails :
         LET r == [Idle EXCEPT !.op = "register", !.email = email] IN
         IF \E u \in Ids(View(p).users) : View(p).users[u].email = email
         THEN Reply(p, r, "EmailTaken")
         ELSE Begin(p, [r EXCEPT !.pc = "insert_patient"])
    /\ UNCHANGED <<db, tx, txOwner, clock>>

\* INSERT INTO users, INSERT INTO patients (users.email is UNIQUE).
InsertPatient(d, email) ==
    [d EXCEPT !.users = Append(@, UserRow(email, "patient", "active")),
              !.patients = Append(@, PartyRow(Len(d.users) + 1, "active"))]

RegisterInsert(p) ==
    /\ req[p].pc = "insert_patient"
    /\ CanWrite(p)
    /\ HasRoom(View(p).patients, MaxPatients)
    /\ IF \E u \in Ids(View(p).users) : View(p).users[u].email = req[p].email
       THEN Raise(p, "IntegrityError")
       ELSE /\ Write(p, InsertPatient(View(p), req[p].email))
            /\ Goto(p, "commit")
    /\ UNCHANGED clock

-----------------------------------------------------------------------------
(* patient.book_appointment, POST *)

\* Mutant: '<=' for '<'.
PastDate_OrToday(date, day) == ~StrLess(Strftime(day), date)

\* appointment_date < datetime.now().strftime('%Y-%m-%d')
PastDate(date, day) == StrLess(date, Strftime(day))

\* The double-booking check: a row of the slot that is not Cancelled or Rescheduled.
SlotTaken(d, doctor_id, date, time) ==
    \E a \in Ids(d.appointments) :
        /\ d.appointments[a].doctor_id = doctor_id
        /\ d.appointments[a].appointment_date = date
        /\ d.appointments[a].appointment_time = time
        /\ NotTerminal(d.appointments[a].status)

\* The availability check: an open window of the doctor on the date covering the time.
WindowCovers(w, doctor_id, date, time) ==
    /\ w.doctor_id = doctor_id
    /\ w.date = date
    /\ w.is_available = 1
    /\ SqlBetween(SqlTime(time), SqlTime(w.start_time), SqlTime(w.end_time))

DoctorAvailable(d, doctor_id, date, time) ==
    \E w \in Ids(d.availability) : WindowCovers(d.availability[w], doctor_id, date, time)

BookRequest(p, actors, forms) ==
    /\ Free(p)
    /\ \E uid \in actors, f \in forms :
         LET r == [Idle EXCEPT !.op = "book", !.uid = uid,
                               !.patient_id = PatientOf(View(p), uid),
                               !.doctor_id = f[1], !.date = f[2], !.time = f[3]] IN
         IF Denied(View(p), uid, "patient")
         THEN Reply(p, r, "AccessDenied")
         ELSE IF ~AllFields(f)
         THEN Reply(p, r, "FieldsRequired")
         ELSE IF PastDate(f[2], clock)
         THEN Reply(p, r, "PastDate")
         ELSE Begin(p, [r EXCEPT !.pc = "select_existing"])
    /\ UNCHANGED <<db, tx, txOwner, clock>>

\* Mutant: the availability is looked at before the conflict.
BookSelectExisting_AvailableFirst(p) ==
    /\ req[p].pc = "select_existing"
    /\ IF ~DoctorAvailable(View(p), SqlInt(req[p].doctor_id), req[p].date, req[p].time)
       THEN Finish(p, "Unavailable")
       ELSE IF SlotTaken(View(p), SqlInt(req[p].doctor_id), req[p].date, req[p].time)
       THEN Finish(p, "SlotTaken")
       ELSE Goto(p, "select_available")
    /\ UNCHANGED <<db, tx, txOwner, clock>>

BookSelectExisting(p) ==
    /\ req[p].pc = "select_existing"
    /\ IF SlotTaken(View(p), SqlInt(req[p].doctor_id), req[p].date, req[p].time)
       THEN Finish(p, "SlotTaken")
       ELSE Goto(p, "select_available")
    /\ UNCHANGED <<db, tx, txOwner, clock>>

\* Mutant: the row is inserted before the availability check.
BookSelectAvailable_Inserts(p) ==
    /\ req[p].pc = "select_available"
    /\ IF DoctorAvailable(View(p), SqlInt(req[p].doctor_id), req[p].date, req[p].time)
       THEN Goto(p, "insert_appointment") /\ UNCHANGED <<db, tx, txOwner>>
       ELSE /\ db' = [db EXCEPT !.appointments =
                        Append(@, AppointmentRow(req[p].patient_id, SqlInt(req[p].doctor_id),
                                                 req[p].date, req[p].time, "Booked"))]
            /\ tx' = db'
            /\ UNCHANGED txOwner
            /\ Finish(p, "Unavailable")
    /\ UNCHANGED clock

BookSelectAvailable(p) ==
    /\ req[p].pc = "select_available"
    /\ IF DoctorAvailable(View(p), SqlInt(req[p].doctor_id), req[p].date, req[p].time)
       THEN Goto(p, "insert_appointment")
       ELSE Finish(p, "Unavailable")
    /\ UNCHANGED <<db, tx, txOwner, clock>>

\* Mutant: the new row is Completed.
InsertAppointment_Completed(d, r) ==
    [d EXCEPT !.appointments =
        Append(@, AppointmentRow(r.patient_id, SqlInt(r.doctor_id), r.date, r.time,
                                 "Completed"))]

\* INSERT INTO appointments (..., status, reason) VALUES (..., 'Booked', ?)
InsertAppointment(d, r) ==
    [d EXCEPT !.appointments =
        Append(@, AppointmentRow(r.patient_id, SqlInt(r.doctor_id), r.date, r.time, "Booked"))]

BookInsert(p) ==
    /\ req[p].pc = "insert_appointment"
    /\ CanWrite(p)
    /\ HasRoom(View(p).appointments, MaxAppointments)
    /\ Write(p, InsertAppointment(View(p), req[p]))
    /\ Goto(p, "commit")
    /\ UNCHANGED clock

-----------------------------------------------------------------------------
(* patient.cancel_appointment *)

CancelRequest(p, actors, aids) ==
    /\ Free(p)
    /\ \E uid \in actors, aid \in aids :
         LET r == [Idle EXCEPT !.op = "cancel", !.uid = uid, !.aid = aid,
                               !.patient_id = PatientOf(View(p), uid)] IN
         IF Denied(View(p), uid, "patient")
         THEN Reply(p, r, "AccessDenied")
         ELSE Begin(p, [r EXCEPT !.pc = "select_appointment"])
    /\ UNCHANGED <<db, tx, txOwner, clock>>

\* Mutant: the SELECT skips the appointments that are Cancelled.
OwnAppointment_Active(d, aid, patient_id) ==
    /\ aid \in Ids(d.appointments)
    /\ d.appointments[aid].patient_id = patient_id
    /\ d.appointments[aid].status # "Cancelled"

\* Mutant: the SELECT does not look at patient_id.
OwnAppointment_AnyPatient(d, aid, patient_id) == aid \in Ids(d.appointments)

\* SELECT * FROM appointments WHERE appointment_id = ? AND patient_id = ?
OwnAppointment(d, aid, patient_id) ==
    aid \in Ids(d.appointments) /\ d.appointments[aid].patient_id = patient_id

CancelSelect(p) ==
    /\ req[p].pc = "select_appointment"
    /\ IF ~OwnAppointment(View(p), req[p].aid, req[p].patient_id)
       THEN Finish(p, "NotFound")
       ELSE IF PastDate(View(p).appointments[req[p].aid].appointment_date, clock)
       THEN Finish(p, "PastDate")
       ELSE Goto(p, "update_cancelled")
    /\ UNCHANGED <<db, tx, txOwner, clock>>

\* Mutant: the UPDATE writes the time as well.
SetStatus_SetsTime(d, aid, status) ==
    IF aid \in Ids(d.appointments)
    THEN [d EXCEPT !.appointments[aid].status = status,
                   !.appointments[aid].appointment_time = <<0, 0>>]
    ELSE d

\* Mutant: the WHERE clause matches no row.
SetStatus_NoRow(d, aid, status) == d

\* Mutant: the UPDATE has no WHERE clause.
SetStatus_AllRows(d, aid, status) ==
    [d EXCEPT !.appointments =
        [a \in Ids(d.appointments) |-> [d.appointments[a] EXCEPT !.status = status]]]

\* UPDATE appointments SET status = ? WHERE appointment_id = ?
SetStatus(d, aid, status) ==
    IF aid \in Ids(d.appointments)
    THEN [d EXCEPT !.appointments[aid].status = status]
    ELSE d

CancelUpdate(p) ==
    /\ req[p].pc = "update_cancelled"
    /\ CanWrite(p)
    /\ Write(p, SetStatus(View(p), req[p].aid, "Cancelled"))
    /\ Goto(p, "commit")
    /\ UNCHANGED clock

-----------------------------------------------------------------------------
(* admin.update_appointment *)

AdminUpdateRequest(p, actors, aids, statuses) ==
    /\ Free(p)
    /\ \E uid \in actors, aid \in aids, status \in statuses :
         LET r == [Idle EXCEPT !.op = "admin_update", !.uid = uid, !.aid = aid,
                               !.status = status] IN
         IF Denied(View(p), uid, "admin")
         THEN Reply(p, r, "AccessDenied")
         ELSE Begin(p, [r EXCEPT !.pc = "admin_update_status"])
    /\ UNCHANGED <<db, tx, txOwner, clock>>

AdminUpdateStatus(p) ==
    /\ req[p].pc = "admin_update_status"
    /\ CanWrite(p)
    /\ IF req[p].aid \in Ids(View(p).appointments) /\ ~StatusCheck(req[p].status)
       THEN Raise(p, "IntegrityError")
       ELSE /\ Write(p, SetStatus(View(p), req[p].aid, req[p].status))
            /\ Goto(p, "commit")
    /\ UNCHANGED clock

-----------------------------------------------------------------------------
(* doctor.update_appointment, POST *)

DoctorUpdateRequest(p, actors, aids, statuses, datas) ==
    /\ Free(p)
    /\ \E uid \in actors, aid \in aids, status \in statuses, data \in datas :
         LET r == [Idle EXCEPT !.op = "doctor_update", !.uid = uid, !.aid = aid,
                               !.status = status, !.data = data] IN
         IF Denied(View(p), uid, "doctor")
         THEN Reply(p, r, "AccessDenied")
         ELSE Begin(p, [r EXCEPT !.pc = "doctor_update_status"])
    /\ UNCHANGED <<db, tx, txOwner, clock>>

DoctorUpdateStatus(p) ==
    /\ req[p].pc = "doctor_update_status"
    /\ CanWrite(p)
    /\ IF req[p].aid \in Ids(View(p).appointments) /\ ~StatusCheck(req[p].status)
       THEN Raise(p, "IntegrityError")
       ELSE /\ Write(p, SetStatus(View(p), req[p].aid, req[p].status))
            /\ Goto(p, "select_treatment")
    /\ UNCHANGED clock

\* SELECT treatment_id FROM treatments WHERE appointment_id = ?
TreatmentExists(d, aid) ==
    \E t \in Ids(d.treatments) : d.treatments[t].appointment_id = aid

DoctorSelectTreatment(p) ==
    /\ req[p].pc = "select_treatment"
    /\ req' = [req EXCEPT ![p].pc = "upsert_treatment",
                          ![p].existing = TreatmentExists(View(p), req[p].aid)]
    /\ UNCHANGED <<db, tx, txOwner, clock, resp>>

\* Mutant: the UPDATE writes nothing.
UpdateTreatment_Keeps(d, aid, data) == d

\* Mutant: the UPDATE adds a row.
UpdateTreatment_Appends(d, aid, data) ==
    [d EXCEPT !.treatments = Append(@, TreatmentRow(aid, data))]

\* UPDATE treatments SET ... WHERE appointment_id = ?
UpdateTreatment(d, aid, data) ==
    [d EXCEPT !.treatments =
        [t \in Ids(d.treatments) |->
            IF d.treatments[t].appointment_id = aid
            THEN TreatmentRow(aid, data)
            ELSE d.treatments[t]]]

\* treatments.appointment_id is UNIQUE: the INSERT fails on a second row.
TreatmentUnique(d, aid) ==
    \A t \in Ids(d.treatments) : d.treatments[t].appointment_id # aid

\* INSERT INTO treatments (...)
InsertTreatment(d, aid, data) ==
    [d EXCEPT !.treatments = Append(@, TreatmentRow(aid, data))]

DoctorUpsertTreatment(p) ==
    /\ req[p].pc = "upsert_treatment"
    /\ CanWrite(p)
    /\ IF req[p].existing
       THEN /\ Write(p, UpdateTreatment(View(p), req[p].aid, req[p].data))
            /\ Goto(p, "commit")
       ELSE IF TreatmentUnique(View(p), req[p].aid)
       THEN /\ Write(p, InsertTreatment(View(p), req[p].aid, req[p].data))
            /\ Goto(p, "commit")
       ELSE Raise(p, "IntegrityError")
    /\ UNCHANGED clock

-----------------------------------------------------------------------------
(* doctor.availability, POST: one form row per window *)

AvailabilityRequest(p, actors, forms) ==
    /\ Free(p)
    /\ \E uid \in actors, form \in forms :
         LET r == [Idle EXCEPT !.op = "availability", !.uid = uid, !.form = form,
                               !.i = 1,
                               !.doctor_id = << DoctorOf(View(p), uid) >>] IN
         IF Denied(View(p), uid, "doctor")
         THEN Reply(p, r, "AccessDenied")
         ELSE IF Len(form) = 0
         THEN Begin(p, [r EXCEPT !.pc = "commit"])
         ELSE Begin(p, [r EXCEPT !.pc = "select_window"])
    /\ UNCHANGED <<db, tx, txOwner, clock>>

\* SELECT availability_id FROM doctor_availability
\* WHERE doctor_id = ? AND date = ? AND start_time = ?   (the rows found)
WindowIds(d, doctor_id, date, start) ==
    { w \in Ids(d.availability) :
        /\ d.availability[w].doctor_id = doctor_id
        /\ d.availability[w].date = date
        /\ d.availability[w].start_time = start }

\* fetchone(): the row of the lowest rowid, 0 when there is none.
FirstWindow(d, doctor_id, date, start) ==
    IF WindowIds(d, doctor_id, date, start) = {} THEN 0
    ELSE CHOOSE w \in WindowIds(d, doctor_id, date, start) :
            \A v \in WindowIds(d, doctor_id, date, start) : w <= v

AvailabilitySelect(p) ==
    /\ req[p].pc = "select_window"
    /\ LET row == req[p].form[req[p].i] IN
       req' = [req EXCEPT ![p].pc = "upsert_window",
                          ![p].wid = FirstWindow(View(p), SqlInt(req[p].doctor_id),
                                                 row.date, row.start_time)]
    /\ UNCHANGED <<db, tx, txOwner, clock, resp>>

\* Mutant: no UNIQUE constraint.
WindowUnique_Absent(d, doctor_id, date, start) == TRUE

\* UNIQUE(doctor_id, date, start_time)
WindowUnique(d, doctor_id, date, start) == WindowIds(d, doctor_id, date, start) = {}

\* Mutant: the UPDATE leaves is_available as it was.
UpdateWindow_KeepsFlag(d, wid, end, avail) ==
    [d EXCEPT !.availability[wid].end_time = end]

\* UPDATE doctor_availability SET end_time = ?, is_available = ? WHERE availability_id = ?
UpdateWindow(d, wid, end, avail) ==
    [d EXCEPT !.availability[wid].end_time = end,
              !.availability[wid].is_available = avail]

\* INSERT INTO doctor_availability (...)
InsertWindow(d, doctor_id, date, start, end, avail) ==
    [d EXCEPT !.availability = Append(@, WindowRow(doctor_id, date, start, end, avail))]

\* After a row: the next row of the form, or the commit.
NextRow(r) ==
    IF r.i < Len(r.form)
    THEN [r EXCEPT !.pc = "select_window", !.i = r.i + 1, !.wid = 0]
    ELSE [r EXCEPT !.pc = "commit", !.wid = 0]

AvailabilityUpsert(p) ==
    /\ req[p].pc = "upsert_window"
    /\ CanWrite(p)
    /\ LET row == req[p].form[req[p].i]
           did == SqlInt(req[p].doctor_id) IN
         IF req[p].wid # 0
       THEN /\ Write(p, UpdateWindow(View(p), req[p].wid, row.end_time, row.is_available))
            /\ req' = [req EXCEPT ![p] = NextRow(req[p])]
            /\ UNCHANGED resp
       ELSE IF WindowUnique(View(p), did, row.date, row.start_time)
       THEN /\ Write(p, InsertWindow(View(p), did, row.date, row.start_time,
                                     row.end_time, row.is_available))
            /\ req' = [req EXCEPT ![p] = NextRow(req[p])]
            /\ UNCHANGED resp
       ELSE Raise(p, "IntegrityError")
    /\ UNCHANGED clock

-----------------------------------------------------------------------------
(* admin.add_doctor, POST *)

AddDoctorRequest(p, actors, emails) ==
    /\ Free(p)
    /\ \E uid \in actors, email \in emails :
         LET r == [Idle EXCEPT !.op = "add_doctor", !.uid = uid, !.email = email] IN
         IF Denied(View(p), uid, "admin")
         THEN Reply(p, r, "AccessDenied")
         ELSE IF \E u \in Ids(View(p).users) : View(p).users[u].email = email
         THEN Reply(p, r, "EmailExists")
         ELSE Begin(p, [r EXCEPT !.pc = "insert_doctor"])
    /\ UNCHANGED <<db, tx, txOwner, clock>>

\* INSERT INTO users, INSERT INTO doctors
InsertDoctor(d, email) ==
    [d EXCEPT !.users = Append(@, UserRow(email, "doctor", "active")),
              !.doctors = Append(@, PartyRow(Len(d.users) + 1, "active"))]

AddDoctorInsert(p) ==
    /\ req[p].pc = "insert_doctor"
    /\ CanWrite(p)
    /\ HasRoom(View(p).doctors, Len(SeedDoctorEmails) + MaxAddedDoctors)
    /\ IF \E u \in Ids(View(p).users) : View(p).users[u].email = req[p].email
       THEN Raise(p, "IntegrityError")
       ELSE /\ Write(p, InsertDoctor(View(p), req[p].email))
            /\ Goto(p, "insert_windows")
    /\ UNCHANGED clock

\* doctor_id = cursor.lastrowid: `cursor` is the cursor of the INSERT INTO users
\* (db.execute made a new cursor for the INSERT INTO doctors), so this is the
\* rowid of the new user row.
AddDoctorLastRowId(d) == Len(d.users)

\* The default windows are inserted one by one; UNIQUE(doctor_id, date, start_time).
WindowsInsertable(d, rows) ==
    \A k \in 1..Len(rows) :
        /\ WindowUnique(d, rows[k].doctor_id, rows[k].date, rows[k].start_time)
        /\ \A j \in 1..(k - 1) :
              <<rows[j].doctor_id, rows[j].date, rows[j].start_time>>
                  # <<rows[k].doctor_id, rows[k].date, rows[k].start_time>>

AddDoctorWindows(p) ==
    /\ req[p].pc = "insert_windows"
    /\ CanWrite(p)
    /\ LET rows == DefaultWindows(AddDoctorLastRowId(View(p)), clock, LastSeedDay(clock)) IN
         IF WindowsInsertable(View(p), rows)
       THEN /\ Write(p, [View(p) EXCEPT !.availability = @ \o rows])
            /\ Goto(p, "commit")
       ELSE Raise(p, "IntegrityError")
    /\ UNCHANGED clock

-----------------------------------------------------------------------------
(* admin.delete_doctor and admin.delete_patient *)

\* UPDATE users SET status = ? WHERE user_id = ?
SetUserStatus(d, user_id, status) ==
    [d EXCEPT !.users =
        [u \in Ids(d.users) |->
            IF u = user_id THEN [d.users[u] EXCEPT !.status = status] ELSE d.users[u]]]

\* Mutant: the doctor's windows are closed with the doctor.
SetDoctorStatus_ClosesWindows(d, doctor_id, status) ==
    [d EXCEPT !.doctors =
                 [i \in Ids(d.doctors) |->
                     IF i = doctor_id THEN [d.doctors[i] EXCEPT !.status = status]
                     ELSE d.doctors[i]],
              !.availability =
                 [w \in Ids(d.availability) |->
                     IF d.availability[w].doctor_id = doctor_id
                     THEN [d.availability[w] EXCEPT !.is_available = 0]
                     ELSE d.availability[w]]]

\* UPDATE doctors SET status = ? WHERE doctor_id = ?
SetDoctorStatus(d, doctor_id, status) ==
    [d EXCEPT !.doctors =
        [i \in Ids(d.doctors) |->
            IF i = doctor_id THEN [d.doctors[i] EXCEPT !.status = status]
            ELSE d.doctors[i]]]

\* UPDATE patients SET status = ? WHERE patient_id = ?
SetPatientStatus(d, patient_id, status) ==
    [d EXCEPT !.patients =
        [i \in Ids(d.patients) |->
            IF i = patient_id THEN [d.patients[i] EXCEPT !.status = status]
            ELSE d.patients[i]]]

DeleteDoctorRequest(p, actors, ids) ==
    /\ Free(p)
    /\ \E uid \in actors, id \in ids :
         LET r == [Idle EXCEPT !.op = "delete_doctor", !.uid = uid,
                               !.doctor_id = << id >>] IN
         IF Denied(View(p), uid, "admin")
         THEN Reply(p, r, "AccessDenied")
         ELSE Begin(p, [r EXCEPT !.pc = "select_doctor"])
    /\ UNCHANGED <<db, tx, txOwner, clock>>

\* SELECT user_id FROM doctors WHERE doctor_id = ?; doctor['user_id'] of no
\* row is a TypeError.
DeleteDoctorSelect(p) ==
    /\ req[p].pc = "select_doctor"
    /\ IF SqlInt(req[p].doctor_id) \in Ids(View(p).doctors)
       THEN /\ req' = [req EXCEPT
                        ![p].pc = "blacklist_user",
                        ![p].user_id = View(p).doctors[SqlInt(req[p].doctor_id)].user_id]
            /\ UNCHANGED <<db, tx, txOwner, resp>>
       ELSE Raise(p, "TypeError")
    /\ UNCHANGED clock

DeleteDoctorUser(p) ==
    /\ req[p].op = "delete_doctor"
    /\ req[p].pc = "blacklist_user"
    /\ CanWrite(p)
    /\ Write(p, SetUserStatus(View(p), req[p].user_id, "blacklisted"))
    /\ Goto(p, "blacklist_doctor")
    /\ UNCHANGED clock

DeleteDoctorUpdate(p) ==
    /\ req[p].pc = "blacklist_doctor"
    /\ CanWrite(p)
    /\ Write(p, SetDoctorStatus(View(p), SqlInt(req[p].doctor_id), "blacklisted"))
    /\ Goto(p, "commit")
    /\ UNCHANGED clock

DeletePatientRequest(p, actors, ids) ==
    /\ Free(p)
    /\ \E uid \in actors, id \in ids :
         LET r == [Idle EXCEPT !.op = "delete_patient", !.uid = uid,
                               !.patient_id = id] IN
         IF Denied(View(p), uid, "admin")
         THEN Reply(p, r, "AccessDenied")
         ELSE Begin(p, [r EXCEPT !.pc = "select_patient"])
    /\ UNCHANGED <<db, tx, txOwner, clock>>

\* SELECT user_id FROM patients WHERE patient_id = ?
DeletePatientSelect(p) ==
    /\ req[p].pc = "select_patient"
    /\ IF req[p].patient_id \in Ids(View(p).patients)
       THEN /\ req' = [req EXCEPT
                        ![p].pc = "blacklist_user",
                        ![p].user_id = View(p).patients[req[p].patient_id].user_id]
            /\ UNCHANGED <<db, tx, txOwner, resp>>
       ELSE Raise(p, "TypeError")
    /\ UNCHANGED clock

DeletePatientUser(p) ==
    /\ req[p].op = "delete_patient"
    /\ req[p].pc = "blacklist_user"
    /\ CanWrite(p)
    /\ Write(p, SetUserStatus(View(p), req[p].user_id, "blacklisted"))
    /\ Goto(p, "blacklist_patient")
    /\ UNCHANGED clock

DeletePatientUpdate(p) ==
    /\ req[p].pc = "blacklist_patient"
    /\ CanWrite(p)
    /\ Write(p, SetPatientStatus(View(p), req[p].patient_id, "blacklisted"))
    /\ Goto(p, "commit")
    /\ UNCHANGED clock

-----------------------------------------------------------------------------
(* admin.edit_doctor and admin.edit_patient, POST *)

PartyStatuses == {"active", "blacklisted"}

\* CHECK(status IN ('active', 'blacklisted')) on users, doctors and patients.
PartyStatusCheck(status) == status \in PartyStatuses \/ status = "NULL"

Genders == {"Male", "Female", "Other"}

\* CHECK(gender IN (...)) on patients: true or NULL (no field in the form).
GenderCheck(gender) == gender = <<>> \/ (Len(gender) = 1 /\ gender[1] \in Genders)

\* users.email is NOT NULL and UNIQUE; users.status has its CHECK.
UserUpdatable(d, user_id, email, status) ==
    /\ email # ""
    /\ \A u \in Ids(d.users) : u # user_id => d.users[u].email # email
    /\ PartyStatusCheck(status)

\* Mutant: the UPDATE of users leaves the status out.
UpdateUser_KeepsStatus(d, user_id, email, status) ==
    [d EXCEPT !.users =
        [u \in Ids(d.users) |->
            IF u = user_id THEN [d.users[u] EXCEPT !.email = email] ELSE d.users[u]]]

\* UPDATE users SET name = ?, email = ?, status = ? WHERE user_id = ?
UpdateUser(d, user_id, email, status) ==
    [d EXCEPT !.users =
        [u \in Ids(d.users) |->
            IF u = user_id THEN [d.users[u] EXCEPT !.email = email, !.status = status]
            ELSE d.users[u]]]

\* The form: email, status and specialization (doctors.specialization is NOT NULL).
EditDoctorRequest(p, actors, ids, emails, statuses, fields) ==
    /\ Free(p)
    /\ \E uid \in actors, id \in ids, email \in emails, status \in statuses,
          field \in fields :
         LET r == [Idle EXCEPT !.op = "edit_doctor", !.uid = uid, !.doctor_id = << id >>,
                               !.email = email, !.status = status, !.form = field] IN
         IF Denied(View(p), uid, "admin")
         THEN Reply(p, r, "AccessDenied")
         ELSE Begin(p, [r EXCEPT !.pc = "select_edited_doctor"])
    /\ UNCHANGED <<db, tx, txOwner, clock>>

\* SELECT user_id FROM doctors WHERE doctor_id = ?
EditDoctorSelect(p) ==
    /\ req[p].pc = "select_edited_doctor"
    /\ IF SqlInt(req[p].doctor_id) \in Ids(View(p).doctors)
       THEN /\ req' = [req EXCEPT
                        ![p].pc = "update_user",
                        ![p].user_id = View(p).doctors[SqlInt(req[p].doctor_id)].user_id]
            /\ UNCHANGED <<db, tx, txOwner, resp>>
       ELSE Raise(p, "TypeError")
    /\ UNCHANGED clock

EditDoctorUser(p) ==
    /\ req[p].op = "edit_doctor"
    /\ req[p].pc = "update_user"
    /\ CanWrite(p)
    /\ IF UserUpdatable(View(p), req[p].user_id, req[p].email, req[p].status)
       THEN /\ Write(p, UpdateUser(View(p), req[p].user_id, req[p].email, req[p].status))
            /\ Goto(p, "update_doctor")
       ELSE Raise(p, "IntegrityError")
    /\ UNCHANGED clock

\* UPDATE doctors SET specialization = ?, ..., status = ? WHERE doctor_id = ?
EditDoctorUpdate(p) ==
    /\ req[p].pc = "update_doctor"
    /\ CanWrite(p)
    /\ IF Truthy(req[p].form) /\ PartyStatusCheck(req[p].status)
       THEN /\ Write(p, SetDoctorStatus(View(p), SqlInt(req[p].doctor_id), req[p].status))
            /\ Goto(p, "commit")
       ELSE Raise(p, "IntegrityError")
    /\ UNCHANGED clock

\* The form: email, status and gender.
EditPatientRequest(p, actors, ids, emails, statuses, fields) ==
    /\ Free(p)
    /\ \E uid \in actors, id \in ids, email \in emails, status \in statuses,
          field \in fields :
         LET r == [Idle EXCEPT !.op = "edit_patient", !.uid = uid, !.patient_id = id,
                               !.email = email, !.status = status, !.form = field] IN
         IF Denied(View(p), uid, "admin")
         THEN Reply(p, r, "AccessDenied")
         ELSE Begin(p, [r EXCEPT !.pc = "select_edited_patient"])
    /\ UNCHANGED <<db, tx, txOwner, clock>>

\* SELECT user_id FROM patients WHERE patient_id = ?
EditPatientSelect(p) ==
    /\ req[p].pc = "select_edited_patient"
    /\ IF req[p].patient_id \in Ids(View(p).patients)
       THEN /\ req' = [req EXCEPT
                        ![p].pc = "update_user",
                        ![p].user_id = View(p).patients[req[p].patient_id].user_id]
            /\ UNCHANGED <<db, tx, txOwner, resp>>
       ELSE Raise(p, "TypeError")
    /\ UNCHANGED clock

EditPatientUser(p) ==
    /\ req[p].op = "edit_patient"
    /\ req[p].pc = "update_user"
    /\ CanWrite(p)
    /\ IF UserUpdatable(View(p), req[p].user_id, req[p].email, req[p].status)
       THEN /\ Write(p, UpdateUser(View(p), req[p].user_id, req[p].email, req[p].status))
            /\ Goto(p, "update_patient")
       ELSE Raise(p, "IntegrityError")
    /\ UNCHANGED clock

\* UPDATE patients SET age = ?, gender = ?, ..., status = ? WHERE patient_id = ?
EditPatientUpdate(p) ==
    /\ req[p].pc = "update_patient"
    /\ CanWrite(p)
    /\ IF GenderCheck(req[p].form) /\ PartyStatusCheck(req[p].status)
       THEN /\ Write(p, SetPatientStatus(View(p), req[p].patient_id, req[p].status))
            /\ Goto(p, "commit")
       ELSE Raise(p, "IntegrityError")
    /\ UNCHANGED clock

-----------------------------------------------------------------------------
(* Steps shared by the handlers *)

Flash(op) ==
    CASE op = "register" -> "Registered"
      [] op = "book" -> "Booked"
      [] op = "cancel" -> "Cancelled"
      [] op = "admin_update" -> "StatusUpdated"
      [] op = "doctor_update" -> "TreatmentUpdated"
      [] op = "availability" -> "AvailabilityUpdated"
      [] op = "add_doctor" -> "DoctorAdded"
      [] op = "delete_doctor" -> "DoctorBlacklisted"
      [] op = "delete_patient" -> "PatientBlacklisted"
      [] op = "edit_doctor" -> "DoctorUpdated"
      [] op = "edit_patient" -> "PatientUpdated"
      [] OTHER -> "none"

\* db.commit() and the success message.
CommitRequest(p) ==
    /\ req[p].pc = "commit"
    /\ Commit(p)
    /\ Finish(p, Flash(req[p].op))
    /\ UNCHANGED clock

\* The statements inside a try block.
TryPcs ==
    {"insert_patient", "insert_appointment", "select_appointment", "update_cancelled",
     "admin_update_status", "doctor_update_status", "select_treatment",
     "upsert_treatment", "select_window", "upsert_window", "insert_doctor",
     "insert_windows", "select_doctor", "select_patient", "blacklist_user",
     "blacklist_doctor", "blacklist_patient", "select_edited_doctor",
     "select_edited_patient", "update_user", "update_doctor", "update_patient",
     "commit"}

\* A statement fails in the storage layer (the write lock is not obtained before
\* the busy timeout, the disk is full, ...): sqlite3 raises, the handler rolls back.
StorageError(p) ==
    /\ req[p].pc \in TryPcs
    /\ Raise(p, "OperationalError")
    /\ UNCHANGED clock

\* Midnight passes.
Tick ==
    /\ clock < Len(Calendar)
    /\ clock' = clock + 1
    /\ UNCHANGED <<db, tx, txOwner, req, resp>>

-----------------------------------------------------------------------------
(* The system *)

\* The state after construction: init_db has created and seeded the database.
Init ==
    /\ clock = 2
    /\ db = SeedData(clock)
    /\ tx = db
    /\ txOwner = 0
    /\ req = [p \in Procs |-> Idle]
    /\ resp = NoResponse

\* The state after two patients have registered (users 6 and 7, patients 1 and 2).
InitRegistered ==
    /\ clock = 2
    /\ db = InsertPatient(InsertPatient(SeedData(clock), "pat1"), "pat2")
    /\ tx = db
    /\ txOwner = 0
    /\ req = [p \in Procs |-> Idle]
    /\ resp = NoResponse

Yesterday == Calendar[1]
Today == Calendar[2]
Tomorrow == Calendar[3]

\* Sessions: the administrator, the first seeded doctor, the two patients.
AdminUser == 1
DoctorUser == 2
PatientUsers == {6, 7}

AppointmentIds == 1..(MaxAppointments + 1)

StatusFields == Statuses \cup {"NULL", "Unknown"}

CommonSteps(p) ==
    \/ CommitRequest(p)
    \/ StorageError(p)

BookSteps(p) ==
    \/ BookSelectExisting(p)
    \/ BookSelectAvailable(p)
    \/ BookInsert(p)

\* Patients booking concurrently.
RaceForms == { << <<1>>, Today, <<12, 0>> >>, << <<1>>, Today, <<9, 0>> >> }

NextRace ==
    \E p \in Procs :
        \/ BookRequest(p, PatientUsers, RaceForms)
        \/ BookSteps(p)
        \/ CommonSteps(p)

SpecRace == InitRegistered /\ [][NextRace]_vars

\* Requests served one at a time: a request comes in when none is being served.
Quiet == \A q \in Procs : Free(q)

CancelSteps(p) ==
    \/ CancelSelect(p)
    \/ CancelUpdate(p)

DoctorUpdateSteps(p) ==
    \/ DoctorUpdateStatus(p)
    \/ DoctorSelectTreatment(p)
    \/ DoctorUpsertTreatment(p)

AvailabilitySteps(p) ==
    \/ AvailabilitySelect(p)
    \/ AvailabilityUpsert(p)

Flu == [diagnosis |-> "flu", prescription |-> "rest", notes |-> "", follow_up_date |-> <<>>]
Cold == [diagnosis |-> "cold", prescription |-> "tea", notes |-> "mild", follow_up_date |-> Tomorrow]

\* Booking, cancelling and status changes on one slot, one request at a time.
SlotForms == { << <<1>>, Today, <<12, 0>> >>, << <<1>>, Today, <<12, 1>> >> }

NextLifecycle ==
    \E p \in Procs :
        \/ Quiet /\ BookRequest(p, PatientUsers, SlotForms)
        \/ BookSteps(p)
        \/ Quiet /\ CancelRequest(p, PatientUsers, AppointmentIds)
        \/ CancelSteps(p)
        \/ Quiet /\ AdminUpdateRequest(p, {AdminUser}, AppointmentIds, StatusFields)
        \/ AdminUpdateStatus(p)
        \/ Quiet /\ DoctorUpdateRequest(p, {DoctorUser}, 1..MaxAppointments,
                                        {"Completed", "Rescheduled"}, {Flu})
        \/ DoctorUpdateSteps(p)
        \/ CommonSteps(p)

SpecLifecycle == InitRegistered /\ [][NextLifecycle]_vars

\* One request at a time: one patient booking around the end of the morning window of doctor 1, who
\* shortens, closes and reopens that window, while the days pass.
BookingForms ==
    { << <<1>>, date, time >> :
        date \in { Yesterday, Today, Tomorrow },
        time \in { <<9, 0>>, <<11, 59>>, <<12, 0>>, <<12, 1>> } }

WindowForm(date, start, end, avail) ==
    [date |-> date, start_time |-> start, end_time |-> end, is_available |-> avail]

MorningForms ==
    { << WindowForm(Today, <<9, 0>>, end, avail) >> :
        end \in { <<11, 59>>, <<12, 0>> }, avail \in {0, 1} }

NextBooking ==
    \/ \E p \in Procs :
        \/ Quiet /\ BookRequest(p, {6}, BookingForms)
        \/ BookSteps(p)
        \/ Quiet /\ AvailabilityRequest(p, {DoctorUser}, MorningForms)
        \/ AvailabilitySteps(p)
        \/ CommonSteps(p)
    \/ Tick

SpecBooking == InitRegistered /\ [][NextBooking]_vars

\* The doctor records the encounter of an appointment from two browser tabs at
\* once, with different findings, while the patient books.
EncounterForms == { << <<1>>, Today, <<9, 0>> >> }

NextEncounter ==
    \E p \in Procs :
        \/ Quiet /\ BookRequest(p, {6}, EncounterForms)
        \/ BookSteps(p)
        \/ DoctorUpdateRequest(p, {DoctorUser}, 1..MaxAppointments,
                               {"Completed", "Rescheduled", "Unknown"}, {Flu, Cold})
        \/ DoctorUpdateSteps(p)
        \/ CommonSteps(p)

SpecEncounter == InitRegistered /\ [][NextEncounter]_vars

\* Doctor 1 declares windows from two browser tabs at once, while the
\* administrator adds a doctor.
NoonForms ==
    { << WindowForm(Today, <<13, 0>>, end, 1) >> : end \in { <<13, 30>>, <<14, 0>> } }
      \cup { << WindowForm(Today, <<9, 0>>, <<11, 59>>, 0),
                WindowForm(Today, <<13, 0>>, <<13, 30>>, 1) >> }

NextWindows ==
    \E p \in Procs :
        \/ AvailabilityRequest(p, {DoctorUser}, NoonForms)
        \/ AvailabilitySteps(p)
        \/ AddDoctorRequest(p, {AdminUser}, {"newdoc"})
        \/ AddDoctorInsert(p)
        \/ AddDoctorWindows(p)
        \/ CommonSteps(p)

SpecWindows == InitRegistered /\ [][NextWindows]_vars

\* Every operation, one request at a time, from the seeded database: patients
\* register, book and cancel, the doctor and the administrator change
\* statuses, the doctor closes and reopens the morning window, the
\* administrator adds a doctor and blacklists doctor 1 and patient 1.
ClinicForms == { << <<1>>, Today, <<12, 0>> >> }

ClinicWindows == { << WindowForm(Today, <<9, 0>>, <<12, 0>>, avail) >> : avail \in {0, 1} }

DeleteDoctorSteps(p) ==
    \/ DeleteDoctorSelect(p)
    \/ DeleteDoctorUser(p)
    \/ DeleteDoctorUpdate(p)

DeletePatientSteps(p) ==
    \/ DeletePatientSelect(p)
    \/ DeletePatientUser(p)
    \/ DeletePatientUpdate(p)

NextClinic ==
    \E p \in Procs :
        \/ Quiet /\ RegisterRequest(p, {"pat1", "pat2"})
        \/ RegisterInsert(p)
        \/ Quiet /\ BookRequest(p, PatientUsers, ClinicForms)
        \/ BookSteps(p)
        \/ Quiet /\ CancelRequest(p, PatientUsers, 1..MaxAppointments)
        \/ CancelSteps(p)
        \/ Quiet /\ AdminUpdateRequest(p, {AdminUser}, 1..MaxAppointments,
                                       {"Completed", "Cancelled"})
        \/ AdminUpdateStatus(p)
        \/ Quiet /\ DoctorUpdateRequest(p, {DoctorUser}, {1}, {"Rescheduled"}, {Flu})
        \/ DoctorUpdateSteps(p)
        \/ Quiet /\ AvailabilityRequest(p, {DoctorUser}, ClinicWindows)
        \/ AvailabilitySteps(p)
        \/ Quiet /\ AddDoctorRequest(p, {AdminUser}, {"newdoc"})
        \/ AddDoctorInsert(p)
        \/ AddDoctorWindows(p)
        \/ Quiet /\ DeleteDoctorRequest(p, {AdminUser}, {1})
        \/ DeleteDoctorSteps(p)
        \/ Quiet /\ DeletePatientRequest(p, {AdminUser}, {1})
        \/ DeletePatientSteps(p)
        \/ CommonSteps(p)

SpecClinic == Init /\ [][NextClinic]_vars

\* One request at a time: the patients book, with complete and incomplete
\* forms, and cancel, while the days pass.
CancelForms ==
    { << <<1>>, date, <<12, 0>> >> : date \in { Yesterday, Today, Tomorrow } }
      \cup { << <<1>>, Today, <<12, 1>> >>, << <<>>, Today, <<12, 0>> >>,
             << <<1>>, <<>>, <<12, 0>> >>, << <<1>>, Today, <<>> >> }

NextCancel ==
    \/ \E p \in Procs :
        \/ Quiet /\ BookRequest(p, PatientUsers, CancelForms)
        \/ BookSteps(p)
        \/ Quiet /\ CancelRequest(p, PatientUsers, AppointmentIds)
        \/ CancelSteps(p)
        \/ CommonSteps(p)
    \/ Tick

SpecCancel == InitRegistered /\ [][NextCancel]_vars

\* A patient books at the end of the morning window while doctor 1 shortens,
\* closes or reopens that window: the requests are in flight together.
OverlapForms == { << <<1>>, Today, <<12, 0>> >> }

NextOverlap ==
    \E p \in Procs :
        \/ BookRequest(p, {6}, OverlapForms)
        \/ BookSteps(p)
        \/ AvailabilityRequest(p, {DoctorUser}, MorningForms)
        \/ AvailabilitySteps(p)
        \/ CommonSteps(p)

SpecOverlap == InitRegistered /\ [][NextOverlap]_vars

\* One request at a time: the bookings of SpecBooking and bookings with a
\* field missing, while doctor 1 changes the morning window and the days pass.
OrderForms ==
    BookingForms
      \cup { << <<>>, date, <<12, 0>> >> : date \in { Yesterday, Today } }
      \cup { << <<1>>, <<>>, <<12, 0>> >>, << <<1>>, Today, <<>> >>,
             << <<1>>, Yesterday, <<>> >> }

NextOrder ==
    \/ \E p \in Procs :
        \/ Quiet /\ BookRequest(p, {6}, OrderForms)
        \/ BookSteps(p)
        \/ Quiet /\ AvailabilityRequest(p, {DoctorUser}, MorningForms)
        \/ AvailabilitySteps(p)
        \/ CommonSteps(p)
    \/ Tick

SpecOrder == InitRegistered /\ [][NextOrder]_vars

\* The administrator's directory work: a patient registers and a doctor is
\* added, then doctor 1 and patient 1 are edited and blacklisted, two requests
\* at a time.
PartyStatusFields == PartyStatuses \cup {"NULL", "inactive"}

EditDoctorSteps(p) ==
    \/ EditDoctorSelect(p)
    \/ EditDoctorUser(p)
    \/ EditDoctorUpdate(p)

EditPatientSteps(p) ==
    \/ EditPatientSelect(p)
    \/ EditPatientUser(p)
    \/ EditPatientUpdate(p)

NextDirectory ==
    \E p \in Procs :
        \/ Quiet /\ RegisterRequest(p, {"pat1"})
        \/ RegisterInsert(p)
        \/ Quiet /\ AddDoctorRequest(p, {AdminUser}, {"newdoc"})
        \/ AddDoctorInsert(p)
        \/ AddDoctorWindows(p)
        \/ EditDoctorRequest(p, {AdminUser}, {1}, {"john", "sarah"}, PartyStatusFields,
                             { <<"Cardiology">>, <<>> })
        \/ EditDoctorSteps(p)
        \/ DeleteDoctorRequest(p, {AdminUser}, {1})
        \/ DeleteDoctorSteps(p)
        \/ EditPatientRequest(p, {AdminUser}, {1}, {"pat1", "john"}, PartyStatuses,
                              { <<"Male">>, <<"Unknown">> })
        \/ EditPatientSteps(p)
        \/ DeletePatientRequest(p, {AdminUser}, {1})
        \/ DeletePatientSteps(p)
        \/ CommonSteps(p)

SpecDirectory == Init /\ [][NextDirectory]_vars

\* Every gated operation asked by every kind of session, two requests at a
\* time: nobody (0), the administrator, a doctor, a patient.
Sessions == {0, AdminUser, DoctorUser, 6}

GateForms == { << <<1>>, Today, <<12, 0>> >>, << <<>>, Today, <<12, 0>> >> }

NextGate ==
    \E p \in Procs :
        \/ BookRequest(p, Sessions, GateForms)
        \/ BookSteps(p)
        \/ CancelRequest(p, Sessions, {1})
        \/ CancelSteps(p)
        \/ DoctorUpdateRequest(p, Sessions, {1}, {"Completed"}, {Flu})
        \/ DoctorUpdateSteps(p)
        \/ AvailabilityRequest(p, Sessions, ClinicWindows)
        \/ AvailabilitySteps(p)
        \/ AdminUpdateRequest(p, Sessions, {1}, {"Cancelled"})
        \/ AdminUpdateStatus(p)
        \/ CommonSteps(p)

SpecGate == InitRegistered /\ [][NextGate]_vars

-----------------------------------------------------------------------------
(* Properties *)

Slot(a) == <<a.doctor_id, a.appointment_date, a.appointment_time>>

\* The position of a request changed in this step.
Stepped(p, pc) == req[p].pc = pc /\ req'[p].pc # pc

\* C1: of the concurrent bookings of one (clinician, date, time), at most one
\* succeeds.  Under SpecRace nothing but bookings happen, so every appointment
\* row is a booking that succeeded: no two rows share a slot.
C1_AtMostOneBookingSucceeds ==
    \A a, b \in Ids(db.appointments) :
        a # b => Slot(db.appointments[a]) # Slot(db.appointments[b])

\* C2: no two appointments whose status is not Cancelled or Rescheduled share
\* the same (clinician, date, time).
C2_NoDoubleBooking ==
    \A a, b \in Ids(db.appointments) :
        (/\ a # b
         /\ db.appointments[a].status \notin {"Cancelled", "Rescheduled"}
         /\ db.appointments[b].status \notin {"Cancelled", "Rescheduled"})
        => Slot(db.appointments[a]) # Slot(db.appointments[b])

\* A time of day in minutes, a date as a number: the orders the claims speak of.
Minutes(t) == t[1] * 60 + t[2]

DayNumber(date) == (date[1] * 100 + date[2]) * 100 + date[3]

\* C3: the availability check passes if and only if some window of the
\* clinician on the date is open and start <= time <= end, both bounds
\* inclusive; otherwise the booking is answered Unavailable and nothing changes.
C3_AvailabilityCheck ==
    [][\A p \in Procs :
        Stepped(p, "select_available")
        => LET covering ==
                 { w \in Ids(db.availability) :
                     /\ << db.availability[w].doctor_id >> = req[p].doctor_id
                     /\ db.availability[w].date = req[p].date
                     /\ db.availability[w].is_available = 1
                     /\ Minutes(db.availability[w].start_time) <= Minutes(req[p].time)
                     /\ Minutes(req[p].time) <= Minutes(db.availability[w].end_time) }
           IN  /\ covering # {} => req'[p].pc = "insert_appointment"
               /\ covering = {} => resp' = Response(req[p], "Unavailable") /\ db' = db
      ]_vars

\* The morning window ends at 11:59 and is open: the booking at 11:59 is an
\* appointment, and the booking at 12:00, one minute after, is answered Unavailable.
C3_Witness ==
    /\ resp.out = "Unavailable"
    /\ resp.of.date = Today
    /\ resp.of.time = <<12, 0>>
    /\ \E w \in Ids(db.availability) :
          /\ db.availability[w] = WindowRow(1, Today, <<9, 0>>, <<11, 59>>, 1)
          /\ \E a \in Ids(db.appointments) :
                Slot(db.appointments[a]) = <<1, Today, db.availability[w].end_time>>

\* C4: a booking dated before the current date is answered PastDate at once and
\* changes nothing; it never reaches the conflict check, whatever the windows
\* and appointments are.  A booking dated today is not answered PastDate.
C4_NoPastBooking ==
    [][/\ \A p \in Procs :
            (Free(p) /\ req'[p].op = "book")
            => DayNumber(req'[p].date) >= DayNumber(Calendar[clock])
       /\ (req' = req /\ resp' # resp /\ resp'.of.op = "book"
             /\ resp'.out \notin {"AccessDenied", "FieldsRequired"})
          => /\ resp'.out = "PastDate"
             /\ DayNumber(resp'.of.date) < DayNumber(Calendar[clock])
             /\ db' = db
      ]_vars

\* After midnight a booking for the day before, in an open window and a free
\* slot, is answered PastDate.
C4_Witness ==
    /\ resp.out = "PastDate"
    /\ clock = 3
    /\ resp.of.date = Calendar[2]
    /\ DoctorAvailable(db, resp.of.doctor_id[1], resp.of.date, resp.of.time)
    /\ ~SlotTaken(db, resp.of.doctor_id[1], resp.of.date, resp.of.time)
    /\ db.appointments # <<>>

\* The appointments of slot `s` that hold it: status Booked or Completed.
Holders(d, s) ==
    { a \in Ids(d.appointments) :
        Slot(d.appointments[a]) = s /\ d.appointments[a].status \in {"Booked", "Completed"} }

\* The slot a booking request asks for.
Asked(r) == <<r.doctor_id[1], r.date, r.time>>

\* C5: cancel frees the slot.  The patient's cancel leaves the appointment
\* Cancelled, and the slot it alone held is then held by nobody; a booking of a
\* slot is rejected as taken while the slot is held and passes the conflict
\* check once it is not; the booking then committed is a new row with status
\* Booked.
C5_CancelFreesSlot ==
    [][\A p \in Procs :
        /\ (req[p].op = "cancel" /\ Stepped(p, "commit") /\ resp'.out = "Cancelled")
            => /\ db'.appointments[req[p].aid].status = "Cancelled"
               /\ Holders(db, Slot(db.appointments[req[p].aid])) \subseteq {req[p].aid}
                    => Holders(db', Slot(db.appointments[req[p].aid])) = {}
        /\ Stepped(p, "select_existing")
            => IF Holders(db, Asked(req[p])) = {}
               THEN req'[p].pc = "select_available"
               ELSE resp' = Response(req[p], "SlotTaken") /\ db' = db
        /\ (req[p].op = "book" /\ Stepped(p, "commit") /\ resp'.out = "Booked")
            => /\ Len(db'.appointments) = Len(db.appointments) + 1
               /\ Slot(db'.appointments[Len(db'.appointments)]) = Asked(req[p])
               /\ db'.appointments[Len(db'.appointments)].status = "Booked"
      ]_vars

\* A was booked and cancelled, and B, booked by the other patient, holds the slot.
C5_Witness ==
    /\ resp.out = "Booked"
    /\ \E a, b \in Ids(db.appointments) :
          /\ a < b
          /\ Slot(db.appointments[a]) = Slot(db.appointments[b])
          /\ db.appointments[a].status = "Cancelled"
          /\ db.appointments[b].status = "Booked"
          /\ db.appointments[a].patient_id # db.appointments[b].patient_id
          /\ resp.of.patient_id = db.appointments[b].patient_id

\* C6: at the conflict check, an appointment of the same (clinician, date, time)
\* blocks the booking exactly when its status is Booked or Completed.
C6_ConflictCheck ==
    [][\A p \in Procs :
        Stepped(p, "select_existing")
        => LET blocking ==
                 { a \in Ids(db.appointments) :
                     /\ << db.appointments[a].doctor_id >> = req[p].doctor_id
                     /\ db.appointments[a].appointment_date = req[p].date
                     /\ db.appointments[a].appointment_time = req[p].time
                     /\ db.appointments[a].status \in {"Booked", "Completed"} }
           IN  /\ blocking # {} => resp'.out = "SlotTaken" /\ resp'.of.op = "book"
               /\ blocking = {} => req'[p].pc = "select_available"
      ]_vars

\* A Rescheduled appointment did not block the booking of its slot, and the
\* appointment booked there, now Completed, blocks the next one.
C6_Witness ==
    /\ resp.out = "SlotTaken"
    /\ \E a, b \in Ids(db.appointments) :
          /\ a < b
          /\ Slot(db.appointments[a]) = Asked(resp.of)
          /\ Slot(db.appointments[b]) = Asked(resp.of)
          /\ db.appointments[a].status = "Rescheduled"
          /\ db.appointments[b].status = "Completed"


\* The encounter records of appointment `aid`.
TreatmentsOf(d, aid) ==
    { t \in Ids(d.treatments) : d.treatments[t].appointment_id = aid }

\* C7: when a call of doctor.update_appointment commits, and in particular a
\* second call on an appointment that already has an encounter record, the
\* appointment has exactly one encounter record, holding the diagnosis,
\* prescription, notes and follow-up date of that call, and the appointment
\* holds the status of that call.
C7_SecondCallWins ==
    [][\A p \in Procs :
        (req[p].op = "doctor_update" /\ Stepped(p, "commit")
            /\ resp'.out = "TreatmentUpdated")
        => /\ \E t \in Ids(db'.treatments) :
                /\ TreatmentsOf(db', req[p].aid) = {t}
                /\ db'.treatments[t].data.diagnosis = req[p].data.diagnosis
                /\ db'.treatments[t].data.prescription = req[p].data.prescription
                /\ db'.treatments[t].data.notes = req[p].data.notes
                /\ db'.treatments[t].data.follow_up_date = req[p].data.follow_up_date
           /\ req[p].aid \in Ids(db.appointments)
                => db'.appointments[req[p].aid].status = req[p].status
      ]_vars

\* A call that found an encounter record has committed: the one record of the
\* appointment holds the data of that call, the appointment its status.
C7_Witness ==
    /\ resp.out = "TreatmentUpdated"
    /\ resp.of.existing
    /\ resp.of.data = Cold
    /\ resp.of.status = "Rescheduled"
    /\ resp.of.aid \in Ids(db.appointments)
    /\ db.appointments[resp.of.aid].status = "Rescheduled"
    /\ \E t \in Ids(db.treatments) :
          TreatmentsOf(db, resp.of.aid) = {t} /\ db.treatments[t].data = Cold

\* C8: in every reachable state, committed or inside a transaction, each
\* appointment has at most one encounter record.
C8_OneEncounterPerAppointment ==
    \A d \in {db, tx} : \A t, u \in Ids(d.treatments) :
        t # u => d.treatments[t].appointment_id # d.treatments[u].appointment_id

\* Two calls on one appointment were in flight together: the first found no
\* record and has committed its own, the second has then found that record.
C8_Witness ==
    \E p \in Procs :
        /\ req[p].op = "doctor_update"
        /\ req[p].pc = "upsert_treatment"
        /\ req[p].existing
        /\ resp.out = "TreatmentUpdated"
        /\ ~resp.of.existing
        /\ resp.of.aid = req[p].aid
        /\ Cardinality(TreatmentsOf(db, req[p].aid)) = 1

\* C9: a step of doctor.update_appointment changes the committed state only as
\* the commit that succeeds, and then the status and the encounter record of
\* the call are both there; every other step, a failure at any statement
\* included, leaves the committed state as it was.
C9_Atomic ==
    [][\A p \in Procs :
        (req[p].op = "doctor_update" /\ req'[p] # req[p])
        => IF Stepped(p, "commit") /\ resp'.out = "TreatmentUpdated"
           THEN /\ req[p].aid \in Ids(db.appointments)
                     => db'.appointments[req[p].aid].status = req[p].status
                /\ \E t \in TreatmentsOf(db', req[p].aid) :
                      db'.treatments[t].data = req[p].data
           ELSE db' = db
      ]_vars

\* A call failed in the storage layer after its status update and its lookup:
\* the appointment and its encounter record are not those of the call.
C9_Witness ==
    /\ resp.out = "OperationalError"
    /\ resp.of.op = "doctor_update"
    /\ resp.of.existing
    /\ resp.of.aid \in Ids(db.appointments)
    /\ db.appointments[resp.of.aid].status # resp.of.status
    /\ \E t \in TreatmentsOf(db, resp.of.aid) : db.treatments[t].data # resp.of.data

\* C10: in every reachable state, committed or inside a transaction, no two
\* availability windows have the same clinician, date and start time.
C10_OneWindowPerKey ==
    \A d \in {db, tx} : \A v, w \in Ids(d.availability) :
        v # w => << d.availability[v].doctor_id, d.availability[v].date,
                    d.availability[v].start_time >>
                 # << d.availability[w].doctor_id, d.availability[w].date,
                      d.availability[w].start_time >>

\* A doctor has been added with the default windows, and of two concurrent
\* declarations of a new window the second was refused by the constraint.
C10_Witness ==
    /\ resp.out = "IntegrityError"
    /\ resp.of.op = "availability"
    /\ Len(db.doctors) > Len(SeedDoctorEmails)
    /\ Len(db.availability) > Len(SeedData(2).availability) + 1
    /\ WindowIds(db, 1, Today, <<13, 0>>) # {}


\* The natural key of a window.
WindowKey(w) == << w.doctor_id, w.date, w.start_time >>

\* C11: when a declaration of windows commits, each declared (clinician, date,
\* start) has exactly one window, with the declared end time and open flag; a
\* window that was there keeps its place, a new one is added; every window of
\* another key and every appointment is as before.
C11_DeclareWindowUpserts ==
    [][\A p \in Procs :
        (req[p].op = "availability" /\ Stepped(p, "commit")
            /\ resp'.out = "AvailabilityUpdated")
        => LET form == req[p].form
               key(k) == << SqlInt(req[p].doctor_id), form[k].date, form[k].start_time >>
               keys == { key(k) : k \in 1..Len(form) }
           IN  /\ \A k \in 1..Len(form) :
                     \E w \in Ids(db'.availability) :
                        /\ { v \in Ids(db'.availability) :
                               WindowKey(db'.availability[v]) = key(k) } = {w}
                        /\ db'.availability[w].end_time = form[k].end_time
                        /\ db'.availability[w].is_available = form[k].is_available
                        /\ (\E v \in Ids(db.availability) :
                               WindowKey(db.availability[v]) = key(k))
                             => /\ w \in Ids(db.availability)
                                /\ WindowKey(db.availability[w]) = key(k)
               /\ \A w \in Ids(db.availability) :
                     /\ w \in Ids(db'.availability)
                     /\ WindowKey(db.availability[w]) \notin keys
                          => db'.availability[w] = db.availability[w]
               /\ \A w \in Ids(db'.availability) :
                     w \notin Ids(db.availability)
                       => WindowKey(db'.availability[w]) \in keys
               /\ db'.appointments = db.appointments
      ]_vars

\* A declaration of two windows has committed: the morning window, which was
\* there, is shortened and closed, and the 13:00 window is the newest row.
C11_Witness ==
    /\ resp.out = "AvailabilityUpdated"
    /\ Len(resp.of.form) = 2
    /\ \E w \in WindowIds(db, 1, Today, <<9, 0>>) :
          /\ w <= Len(SeedData(2).availability)
          /\ db.availability[w].end_time = <<11, 59>>
          /\ db.availability[w].is_available = 0
    /\ WindowIds(db, 1, Today, <<13, 0>>) = { Len(db.availability) }


\* C12: an appointment that is Completed, Cancelled or Rescheduled changes
\* its status only in the commit of an administrator override.
C12_TerminalOnlyByAdmin ==
    [][\A a \in Ids(db.appointments) :
        (/\ db.appointments[a].status \in {"Completed", "Cancelled", "Rescheduled"}
         /\ db'.appointments[a].status # db.appointments[a].status)
        => \E p \in Procs : req[p].op = "admin_update" /\ Stepped(p, "commit")
      ]_vars


\* C13: a step that adds an appointment is the commit of a booking that
\* succeeds; it adds one appointment, with status Booked.  No step of another
\* operation adds one.
C13_CreatedByBooking ==
    [][Len(db'.appointments) # Len(db.appointments)
        => /\ \E p \in Procs :
                /\ req[p].op = "book"
                /\ Stepped(p, "commit")
                /\ resp' = Response(req[p], "Booked")
           /\ Len(db'.appointments) = Len(db.appointments) + 1
           /\ db'.appointments[Len(db'.appointments)].status = "Booked"
      ]_vars

\* Every kind of operation has committed and the last one is a booking: a doctor
\* was added, doctor 1 and a patient are blacklisted, appointment 1 has an
\* encounter record and is Rescheduled, appointment 2 is the new booking.
C13_Witness ==
    /\ resp.out = "Booked"
    /\ Len(db.appointments) = 2
    /\ db.appointments[1].status = "Rescheduled"
    /\ db.appointments[2].status = "Booked"
    /\ db.treatments # <<>>
    /\ Len(db.doctors) > Len(SeedDoctorEmails)
    /\ db.doctors[1].status = "blacklisted"
    /\ \E q \in Ids(db.patients) : db.patients[q].status = "blacklisted"


\* The appointment `aid` exists and its patient is the user `uid`.
BelongsTo(d, aid, uid) ==
    /\ aid \in Ids(d.appointments)
    /\ d.appointments[aid].patient_id \in Ids(d.patients)
    /\ d.patients[d.appointments[aid].patient_id].user_id = uid

\* C14: a cancel request that names an appointment of another patient, or no
\* appointment, is answered not-found at its SELECT (when the SELECT does not
\* fail in the storage layer) and changes nothing; one
\* that names an appointment of the requesting patient is not; and a step of a
\* cancel request changes no appointment but the requesting patient's own.
C14_CancelOwnOnly ==
    [][\A p \in Procs :
        /\ (req[p].op = "cancel" /\ Stepped(p, "select_appointment")
              /\ resp'.out # "OperationalError")
            => IF BelongsTo(db, req[p].aid, req[p].uid)
               THEN resp'.out # "NotFound"
               ELSE resp' = Response(req[p], "NotFound") /\ db' = db
        /\ (req[p].op = "cancel" /\ req'[p] # req[p])
            => \A a \in Ids(db.appointments) :
                  db'.appointments[a] # db.appointments[a]
                    => a = req[p].aid /\ BelongsTo(db, a, req[p].uid)
      ]_vars

\* A patient asked to cancel the Booked appointment of another patient and was
\* answered not-found; the appointment is still Booked.
C14_Witness ==
    /\ resp.out = "NotFound"
    /\ resp.of.op = "cancel"
    /\ resp.of.aid \in Ids(db.appointments)
    /\ db.appointments[resp.of.aid].status = "Booked"
    /\ db.appointments[resp.of.aid].patient_id # resp.of.patient_id
    /\ resp.of.patient_id \in Ids(db.patients)


\* C15: at the SELECT of a cancel request of the owning patient, an
\* appointment dated before the current date is answered past-date and
\* nothing changes, and one dated today or later goes on to the UPDATE; the
\* cancel that commits leaves the appointment Cancelled.
C15_CancelPastDate ==
    [][\A p \in Procs :
        /\ (req[p].op = "cancel" /\ Stepped(p, "select_appointment")
              /\ resp'.out # "OperationalError" /\ BelongsTo(db, req[p].aid, req[p].uid))
            => IF DayNumber(db.appointments[req[p].aid].appointment_date)
                    < DayNumber(Calendar[clock])
               THEN resp' = Response(req[p], "PastDate") /\ db' = db
               ELSE req'[p].pc = "update_cancelled"
        /\ (req[p].op = "cancel" /\ Stepped(p, "commit") /\ resp'.out = "Cancelled")
            => db'.appointments[req[p].aid].status = "Cancelled"
      ]_vars

\* After midnight the patient asked to cancel the appointment of the day
\* before: the answer is past-date and the appointment is still Booked.
C15_Witness ==
    /\ resp.out = "PastDate"
    /\ resp.of.op = "cancel"
    /\ clock = 3
    /\ BelongsTo(db, resp.of.aid, resp.of.uid)
    /\ db.appointments[resp.of.aid].appointment_date = Calendar[2]
    /\ db.appointments[resp.of.aid].status = "Booked"

\* C16: a cancel request of the owning patient for an appointment that is
\* already Cancelled, its date not past, is not rejected at the SELECT, and
\* when it commits it is answered as a cancel and no appointment has changed.
C16_CancelIdempotent ==
    [][\A p \in Procs :
        (/\ req[p].op = "cancel"
         /\ BelongsTo(db, req[p].aid, req[p].uid)
         /\ db.appointments[req[p].aid].status = "Cancelled")
        => /\ (Stepped(p, "select_appointment") /\ resp'.out # "OperationalError"
                 /\ DayNumber(db.appointments[req[p].aid].appointment_date)
                      >= DayNumber(Calendar[clock]))
               => req'[p].pc = "update_cancelled"
           /\ Stepped(p, "commit")
               => /\ db'.appointments = db.appointments
                  /\ resp'.out \in {"Cancelled", "OperationalError"}
      ]_vars

\* Appointment a was cancelled, its slot was booked again as b, and then a
\* was cancelled a second time: the answer is that of a cancel and a is Cancelled.
C16_Witness ==
    /\ resp.out = "Cancelled"
    /\ resp.of.op = "cancel"
    /\ \E a, b \in Ids(db.appointments) :
          /\ a < b
          /\ resp.of.aid = a
          /\ Slot(db.appointments[a]) = Slot(db.appointments[b])
          /\ db.appointments[a].status = "Cancelled"
          /\ db.appointments[b].status = "Booked"


\* C17: in every reachable state the status of each appointment is Booked,
\* Completed, Cancelled or Rescheduled.
C17_StatusDomain ==
    \A a \in Ids(db.appointments) : db.appointments[a].status \in Statuses

\* C18: a booking that succeeds has a clinician and a patient that are not
\* blacklisted.
C18_NoBlacklistedBooking ==
    [][\A p \in Procs :
        (req[p].op = "book" /\ Stepped(p, "commit") /\ resp'.out = "Booked")
        => /\ db.doctors[SqlInt(req[p].doctor_id)].status # "blacklisted"
           /\ db.patients[req[p].patient_id].status # "blacklisted"
           /\ db.users[req[p].uid].status # "blacklisted"
      ]_vars

\* C19: a booking request changes the committed state only in the commit that
\* is answered Booked; a request answered with missing fields, past date, slot
\* taken or unavailable (or a storage failure) leaves the appointments, the
\* windows and the encounter records as they were.
C19_RejectedBookingFrame ==
    [][/\ \A p \in Procs :
            (/\ req[p].op = "book"
             /\ req'[p] # req[p]
             /\ ~(Stepped(p, "commit") /\ resp'.out = "Booked"))
            => db' = db
       /\ (req' = req /\ resp' # resp /\ resp'.of.op = "book")
            => /\ db' = db
               /\ resp'.out \in {"AccessDenied", "FieldsRequired", "PastDate"}
      ]_vars

\* A booking outside every open window was answered unavailable while the
\* slot itself is free; the appointments made before are there.
C19_Witness ==
    /\ resp.out = "Unavailable"
    /\ resp.of.op = "book"
    /\ db.appointments # <<>>
    /\ \A a \in Ids(db.appointments) : Slot(db.appointments[a]) # Asked(resp.of)

\* C20: no step removes an appointment, and no step changes the patient,
\* clinician, date or time of an appointment.
C20_NeverDeleted ==
    [][/\ Len(db'.appointments) >= Len(db.appointments)
       /\ \A a \in Ids(db.appointments) :
             /\ db'.appointments[a].patient_id = db.appointments[a].patient_id
             /\ Slot(db'.appointments[a]) = Slot(db.appointments[a])
      ]_vars

\* Appointment 1 has been rescheduled by the doctor, with an encounter record,
\* and then cancelled; appointment 2 was completed by the administrator.
C20_Witness ==
    /\ Len(db.appointments) = 2
    /\ db.appointments[1].status = "Cancelled"
    /\ db.appointments[2].status = "Completed"
    /\ TreatmentsOf(db, 1) # {}
    /\ resp.out = "Cancelled"


\* The open windows of the database that cover the slot `s`.
OpenWindows(d, s) ==
    { w \in Ids(d.availability) :
        /\ d.availability[w].doctor_id = s[1]
        /\ d.availability[w].date = s[2]
        /\ d.availability[w].is_available = 1
        /\ Minutes(d.availability[w].start_time) <= Minutes(s[3])
        /\ Minutes(s[3]) <= Minutes(d.availability[w].end_time) }

\* C21: whenever a booking commits a new appointment, at that moment some
\* window of the clinician on the date is open and covers the time.
C21_BookedInsideWindow ==
    [][\A p \in Procs :
        (req[p].op = "book" /\ Stepped(p, "commit") /\ resp'.out = "Booked")
        => OpenWindows(db, Asked(req[p])) # {}
      ]_vars


\* What a booking form asks for, read without the handler.
Missing(r) == r.doctor_id = <<>> \/ r.date = <<>> \/ r.time = <<>>

Past(r, day) == DayNumber(r.date) < DayNumber(Calendar[day])

Taken(d, r) ==
    \E a \in Ids(d.appointments) :
        /\ Slot(d.appointments[a]) = Asked(r)
        /\ d.appointments[a].status \in {"Booked", "Completed"}

\* C22: a booking is rejected for the first of missing field, past date, slot
\* conflict, unavailable that applies: a form with a field missing is answered
\* so whatever else holds, a complete form with a past date is answered
\* past-date whatever the slot and the windows are, and a taken slot is
\* answered as a conflict also when no open window covers it.
C22_RejectionOrder ==
    [][/\ (req' = req /\ resp' # resp /\ resp'.of.op = "book"
             /\ resp'.out # "AccessDenied")
          => IF Missing(resp'.of)
             THEN resp'.out = "FieldsRequired"
             ELSE resp'.out = "PastDate" /\ Past(resp'.of, clock)
       /\ \A p \in Procs :
            /\ (Free(p) /\ req'[p].op = "book")
                => ~Missing(req'[p]) /\ ~Past(req'[p], clock)
            /\ Stepped(p, "select_existing")
                => IF Taken(db, req[p])
                   THEN resp' = Response(req[p], "SlotTaken")
                   ELSE req'[p].pc = "select_available"
            /\ Stepped(p, "select_available")
                => IF OpenWindows(db, Asked(req[p])) = {}
                   THEN resp' = Response(req[p], "Unavailable")
                   ELSE req'[p].pc = "insert_appointment"
      ]_vars

\* The slot is held by a Booked appointment and the window that covered it has
\* been shortened or closed: the booking is answered as a conflict.
C22_Witness ==
    /\ resp.out = "SlotTaken"
    /\ resp.of.op = "book"
    /\ Taken(db, resp.of)
    /\ OpenWindows(db, Asked(resp.of)) = {}


\* C23: in every reachable state every encounter record refers to an
\* appointment that exists.
C23_EncounterHasAppointment ==
    \A t \in Ids(db.treatments) :
        db.treatments[t].appointment_id \in Ids(db.appointments)


\* C24: when add_doctor succeeds, the doctor it created (the last row of
\* doctors, named by its doctor_id) owns an open default window for each slot
\* of each of the next days, and every window the request created belongs to
\* that doctor.
C24_NewDoctorOwnsWindows ==
    [][\A p \in Procs :
          (req[p].op = "add_doctor" /\ Stepped(p, "commit") /\ resp'.out = "DoctorAdded")
          => LET id == Len(db'.doctors) IN
             /\ \A day \in NextDays(clock) : \A k \in 1..Len(SeedSlots) :
                   \E w \in Ids(db'.availability) :
                      db'.availability[w] =
                          WindowRow(id, Strftime(day), SeedSlots[k][1], SeedSlots[k][2], 1)
             /\ \A w \in Ids(db'.availability) \ Ids(db.availability) :
                   db'.availability[w].doctor_id = id
      ]_vars


\* C25: an administrator override to one of the four statuses is accepted
\* whatever the current status of the appointment is (only a failure of the
\* storage layer stops it), and its commit changes the status of the named
\* appointment and nothing else: the other fields of that appointment, every
\* other appointment, every window, every encounter record and every user,
\* doctor and patient row stay as they were.
C25_OverrideFrame ==
    [][\A p \in Procs :
          /\ (/\ Stepped(p, "admin_update_status")
              /\ req[p].status \in Statuses
              /\ resp'.out # "OperationalError")
             => req'[p].pc = "commit"
          /\ (req[p].op = "admin_update" /\ Stepped(p, "commit")
                /\ resp'.out = "StatusUpdated")
             => /\ db'.treatments = db.treatments
                /\ db'.availability = db.availability
                /\ db'.users = db.users
                /\ db'.doctors = db.doctors
                /\ db'.patients = db.patients
                /\ Len(db'.appointments) = Len(db.appointments)
                /\ \A a \in Ids(db.appointments) :
                      IF a = req[p].aid
                      THEN /\ db'.appointments[a].status = req[p].status
                           /\ db'.appointments[a].patient_id = db.appointments[a].patient_id
                           /\ Slot(db'.appointments[a]) = Slot(db.appointments[a])
                      ELSE db'.appointments[a] = db.appointments[a]
      ]_vars

\* The administrator has just put appointment 1, which the doctor had closed
\* with an encounter record, back to Booked; appointment 2 is still Cancelled.
C25_Witness ==
    /\ resp.out = "StatusUpdated"
    /\ resp.of.aid = 1
    /\ resp.of.status = "Booked"
    /\ Len(db.appointments) = 2
    /\ db.appointments[1].status = "Booked"
    /\ db.appointments[2].status = "Cancelled"
    /\ TreatmentsOf(db, 1) # {}


\* The table `after` holds every row of `before`, each equal to what it was
\* but for the status of row `id`, which is `status`.
OnlyStatusOf(before, after, id, status) ==
    /\ Len(after) = Len(before)
    /\ \A i \in Ids(before) :
          IF i = id THEN after[i] = [before[i] EXCEPT !.status = status]
          ELSE after[i] = before[i]

\* C26: no step removes a user, doctor or patient row.  The commit of a delete
\* sets the status of the named party and of its user account to blacklisted
\* and changes nothing else: every appointment, window and encounter record,
\* those of the party included, is what it was.
C26_SoftDelete ==
    [][/\ Len(db'.users) >= Len(db.users)
       /\ Len(db'.doctors) >= Len(db.doctors)
       /\ Len(db'.patients) >= Len(db.patients)
       /\ \A p \in Procs :
            /\ (req[p].op = "delete_doctor" /\ Stepped(p, "commit")
                  /\ resp'.out = "DoctorBlacklisted")
               => /\ db'.appointments = db.appointments
                  /\ db'.availability = db.availability
                  /\ db'.treatments = db.treatments
                  /\ db'.patients = db.patients
                  /\ OnlyStatusOf(db.doctors, db'.doctors,
                                  SqlInt(req[p].doctor_id), "blacklisted")
                  /\ OnlyStatusOf(db.users, db'.users,
                                  db.doctors[SqlInt(req[p].doctor_id)].user_id, "blacklisted")
            /\ (req[p].op = "delete_patient" /\ Stepped(p, "commit")
                  /\ resp'.out = "PatientBlacklisted")
               => /\ db'.appointments = db.appointments
                  /\ db'.availability = db.availability
                  /\ db'.treatments = db.treatments
                  /\ db'.doctors = db.doctors
                  /\ OnlyStatusOf(db.patients, db'.patients,
                                  req[p].patient_id, "blacklisted")
                  /\ OnlyStatusOf(db.users, db'.users,
                                  db.patients[req[p].patient_id].user_id, "blacklisted")
      ]_vars

\* Doctor 1 has just been blacklisted after patient 1 was: the appointment of
\* patient 1 with doctor 1 is still Booked, with its encounter record, and
\* doctor 1 still has an open window.
C26_Witness ==
    /\ resp.out = "DoctorBlacklisted"
    /\ db.doctors[1].status = "blacklisted"
    /\ db.users[db.doctors[1].user_id].status = "blacklisted"
    /\ Len(db.patients) >= 1
    /\ db.patients[1].status = "blacklisted"
    /\ \E a \in Ids(db.appointments) :
          /\ db.appointments[a].doctor_id = 1
          /\ db.appointments[a].patient_id = 1
          /\ db.appointments[a].status = "Booked"
          /\ TreatmentsOf(db, a) # {}
    /\ \E w \in Ids(db.availability) :
          db.availability[w].doctor_id = 1 /\ db.availability[w].is_available = 1


\* C27: in every reachable state each doctor row and each patient row carries
\* the status of its user account.
C27_StatusInStep ==
    /\ \A i \in Ids(db.doctors) :
          db.doctors[i].status = db.users[db.doctors[i].user_id].status
    /\ \A i \in Ids(db.patients) :
          db.patients[i].status = db.users[db.patients[i].user_id].status

\* An edit that was to blacklist doctor 1 has just failed at its second
\* statement (no specialization), after its UPDATE of users: doctor 1 and its
\* account are both active still, while patient 1 and its account are
\* blacklisted and a doctor has been added.
C27_Witness ==
    /\ resp.out = "IntegrityError"
    /\ resp.of.op = "edit_doctor"
    /\ resp.of.status = "blacklisted"
    /\ resp.of.email = "john"
    /\ resp.of.form = <<>>
    /\ db.doctors[1].status = "active"
    /\ db.users[db.doctors[1].user_id].status = "active"
    /\ Len(db.patients) = 1
    /\ db.patients[1].status = "blacklisted"
    /\ Len(db.doctors) > Len(SeedDoctorEmails)


\* The role the decorators of an operation ask for.
RequiredRole(op) ==
    CASE op \in {"book", "cancel"} -> "patient"
      [] op \in {"doctor_update", "availability"} -> "doctor"
      [] op = "admin_update" -> "admin"
      [] OTHER -> "none"

\* C28: a booking, cancel, doctor transition, availability declaration or
\* administrator override of a session whose role is not the one the operation
\* asks for (no session included) never reaches the first statement of its
\* handler; it is answered with the refusal, whatever its form holds, and the
\* step that refuses it changes neither the database nor any transaction,
\* request or the clock.
C28_RoleGate ==
    [][/\ \A p \in Procs :
            (Free(p) /\ ~Free(p)')
            => RoleOf(db, req'[p].uid) = RequiredRole(req'[p].op)
       /\ (/\ resp' # resp
           /\ resp'.of.op # "none"
           /\ RoleOf(db, resp'.of.uid) # RequiredRole(resp'.of.op))
            => /\ resp'.out = "AccessDenied"
               /\ UNCHANGED <<db, tx, txOwner, req, clock>>
       /\ (resp' # resp /\ resp'.out = "AccessDenied")
            => RoleOf(db, resp'.of.uid) # RequiredRole(resp'.of.op)
      ]_vars

\* The doctor's session has just been refused the administrator's override of
\* appointment 1 while a booking holds the write lock: the appointment is
\* Booked still.
C28_Witness ==
    /\ resp.out = "AccessDenied"
    /\ resp.of.op = "admin_update"
    /\ resp.of.uid = DoctorUser
    /\ txOwner # 0
    /\ Len(db.appointments) = 1
    /\ db.appointments[1].status = "Booked"

====
